---- MODULE Spec2Model ----
(***************************************************************************)
(* TraceTree backend: the tree schema (app/models/tree.py), the read path *)
(* GET /api/trees/{tree_id} (app/routers/trees.py) with its per-request   *)
(* session (app/core/database.py), the health endpoint (app/main.py) and  *)
(* the JSON import (app/db/migrate_json.py).                              *)
(*                                                                         *)
(* JSON values are encoded so that every field has one TLA+ type:         *)
(*   - a scalar is a TLA+ string; the three strings Absent, Null and      *)
(*     NonString stand for a missing key, JSON null / Python None, and a  *)
(*     JSON value that is not a string (a number);                        *)
(*   - a list-valued or mapping-valued field is a record [tag, items]     *)
(*     whose tag says whether the key is missing ("absent"), null         *)
(*     ("null"), a list / mapping ("list" / "dict") or something else     *)
(*     ("other").                                                         *)
(* A validated pydantic value uses the tag "None" for an optional field   *)
(* that holds None, and never "absent", "null" or "other".                *)
(***************************************************************************)
EXTENDS Naturals, Sequences, FiniteSets, TLC

VARIABLES store, imported, dbUp, req, session, health

vars == <<store, imported, dbUp, req, session, health>>

\* ------------------------------------------------------------------ bounds

\* Number of requests to GET /api/trees/{tree_id} that are in progress at once.
NumRequests == 1
\* Largest number of JSON files one run of the import finds.
MaxFiles == 2
\* Largest number of options of a stored node.
MaxOptions == 1

\* ------------------------------------------------------- JSON encodings

Absent == "<absent>"
Null == "<null>"
NonString == "<number>"

IsStr(v) == v \notin {Absent, Null, NonString}

JAbsent == [tag |-> "absent", items |-> <<>>]
JNull == [tag |-> "null", items |-> <<>>]
JOther == [tag |-> "other", items |-> <<>>]
JList(s) == [tag |-> "list", items |-> s]
JDict(f) == [tag |-> "dict", items |-> f]
PyNone == [tag |-> "None", items |-> <<>>]
PyList(s) == [tag |-> "list", items |-> s]
PyDict(f) == [tag |-> "dict", items |-> f]

SeqsUpTo(S, n) == UNION {[1..k -> S] : k \in 0..n}

\* --------------------------------------------- app/models/tree.py: schema

None == "<None>"

\* A field declared `str`: present and a string.
ReqStrValid(v) == IsStr(v)
\* A field declared `Optional[str] = None`: missing, null or a string.
OptStrValid(v) == v \in {Absent, Null} \/ IsStr(v)
OptStr(v) == IF v \in {Absent, Null} THEN None ELSE v
\* A field declared `Optional[List[str]] = None`.
OptStrListValid(l) ==
    \/ l.tag \in {"absent", "null"}
    \/ l.tag = "list" /\ \A i \in DOMAIN l.items : IsStr(l.items[i])
OptStrList(l) == IF l.tag = "list" THEN PyList(l.items) ELSE PyNone

\* class Option
OptionValid(o) ==
    /\ ReqStrValid(o.id)
    /\ ReqStrValid(o.label)
    /\ OptStrListValid(o.next_node_ids)
OptionSchema(o) ==
    [id |-> o.id, label |-> o.label, next_node_ids |-> OptStrList(o.next_node_ids)]

\* class Hint
HintValid(h) == ReqStrValid(h.text) /\ ReqStrValid(h.type)
HintSchema(h) == [text |-> h.text, type |-> h.type]

\* hints: Optional[List[Hint]] = None
HintsValid(l) ==
    \/ l.tag \in {"absent", "null"}
    \/ l.tag = "list" /\ \A i \in DOMAIN l.items : HintValid(l.items[i])
HintsSchema(l) ==
    IF l.tag = "list"
    THEN PyList([i \in DOMAIN l.items |-> HintSchema(l.items[i])])
    ELSE PyNone

\* options: List[Option]
OptionsValid(l) == l.tag = "list" /\ \A i \in DOMAIN l.items : OptionValid(l.items[i])
OptionsSchema(l) == PyList([i \in DOMAIN l.items |-> OptionSchema(l.items[i])])

\* type: str  (the comment lists 'select', 'multiselect', 'text'; the
\* annotation accepts every string)
TypeValid(t) == ReqStrValid(t)

\* NodeSchema with the two hint representations reconciled: a node stored
\* without `hints` gets one built from its legacy hint.
NodeSchemaReconciled(n) ==
    [id |-> n.id,
     question |-> n.question,
     hint |-> OptStr(n.hint),
     hint_type |-> OptStr(n.hint_type),
     hints |-> IF n.hints.tag # "list" /\ IsStr(n.hint)
               THEN PyList(<<[text |-> n.hint, type |-> "text"]>>)
               ELSE HintsSchema(n.hints),
     type |-> n.type,
     options |-> OptionsSchema(n.options),
     description |-> OptStr(n.description)]

\* class Node
NodeValid(n) ==
    /\ ReqStrValid(n.id)
    /\ ReqStrValid(n.question)
    /\ OptStrValid(n.hint)
    /\ OptStrValid(n.hint_type)
    /\ HintsValid(n.hints)
    /\ TypeValid(n.type)
    /\ OptionsValid(n.options)
    /\ OptStrValid(n.description)
NodeSchema(n) ==
    [id |-> n.id,
     question |-> n.question,
     hint |-> OptStr(n.hint),
     hint_type |-> OptStr(n.hint_type),
     hints |-> HintsSchema(n.hints),
     type |-> n.type,
     options |-> OptionsSchema(n.options),
     description |-> OptStr(n.description)]

\* NodesSchema with every next_node_ids entry that is no key of the mapping
\* dropped.
DropDangling(keys, o) ==
    IF o.next_node_ids.tag = "list"
    THEN [o EXCEPT !.next_node_ids.items = SelectSeq(@, LAMBDA x : x \in keys)]
    ELSE o
NodesSchemaDanglingDropped(d) ==
    PyDict([k \in DOMAIN d.items |->
        [NodeSchema(d.items[k]) EXCEPT
            !.options.items = [i \in DOMAIN @ |-> DropDangling(DOMAIN d.items, @[i])]]])

\* nodes: Dict[str, Node]
NodesValid(d) == d.tag = "dict" /\ \A k \in DOMAIN d.items : NodeValid(d.items[k])
NodesSchema(d) == PyDict([k \in DOMAIN d.items |-> NodeSchema(d.items[k])])

\* TreeSchema with a root that is not a node key replaced by a node key.
TreeSchemaRootRepaired(d) ==
    [id |-> d.id,
     title |-> d.title,
     description |-> d.description,
     root_node_id |-> IF d.root_node_id \in DOMAIN d.nodes.items \/ DOMAIN d.nodes.items = {}
                      THEN d.root_node_id
                      ELSE CHOOSE k \in DOMAIN d.nodes.items : TRUE,
     nodes |-> NodesSchema(d.nodes)]

\* class Tree: TreeSchema(**tree_dict) raises ValidationError unless TreeSchemaValid
TreeSchemaValid(d) ==
    /\ ReqStrValid(d.id)
    /\ ReqStrValid(d.title)
    /\ ReqStrValid(d.description)
    /\ ReqStrValid(d.root_node_id)
    /\ NodesValid(d.nodes)
TreeSchema(d) ==
    [id |-> d.id,
     title |-> d.title,
     description |-> d.description,
     root_node_id |-> d.root_node_id,
     nodes |-> NodesSchema(d.nodes)]

\* ------------------------- serialization of the response_model (TreeSchema)
\* Every declared field is written; a field holding None is written as null.

OptStrDump(v) == IF v = None THEN Null ELSE v
\* OptListDump that leaves out empty lists as it leaves out None.
OptListDumpEmptyAsNull(l) == IF l.tag = "None" \/ l.items = <<>> THEN JNull ELSE JList(l.items)
OptListDump(l) == IF l.tag = "None" THEN JNull ELSE JList(l.items)
OptionDump(o) ==
    [id |-> o.id, label |-> o.label, next_node_ids |-> OptListDump(o.next_node_ids)]
HintDump(h) == [text |-> h.text, type |-> h.type]
HintsDump(l) ==
    IF l.tag = "None" THEN JNull
    ELSE JList([i \in DOMAIN l.items |-> HintDump(l.items[i])])
OptionsDump(l) == JList([i \in DOMAIN l.items |-> OptionDump(l.items[i])])
NodeDump(n) ==
    [id |-> n.id,
     question |-> n.question,
     hint |-> OptStrDump(n.hint),
     hint_type |-> OptStrDump(n.hint_type),
     hints |-> HintsDump(n.hints),
     type |-> n.type,
     options |-> OptionsDump(n.options),
     description |-> OptStrDump(n.description)]
NodesDump(d) == JDict([k \in DOMAIN d.items |-> NodeDump(d.items[k])])
TreeDump(t) ==
    [id |-> t.id,
     title |-> t.title,
     description |-> t.description,
     root_node_id |-> t.root_node_id,
     nodes |-> NodesDump(t.nodes)]

\* ------------------------------------------------------------ input values

TreeIds == {"t1", "t2"}
UnknownId == "unknown-tree"
RequestIds == TreeIds \cup {UnknownId}

RawOption(next) == [id |-> "opt-1", label |-> "dummy", next_node_ids |-> next]
RawHint(text) == [text |-> text, type |-> "command"]
RawNode(id, type, hint, hint_type, hints, options, description) ==
    [id |-> id, question |-> "q", hint |-> hint, hint_type |-> hint_type,
     hints |-> hints, type |-> type, options |-> options,
     description |-> description]
RawTree(id, description, root, nodes) ==
    [id |-> id, title |-> "title", description |-> description,
     root_node_id |-> root, nodes |-> nodes]

\* next_node_ids as stored: missing, null, empty, resolving ("n2" when the
\* tree has that node) and dangling ("ghost"), and a list with a non-string.
NextNodeIdsInputs ==
    {JAbsent, JNull, JList(<<>>), JList(<<"n2", "ghost">>), JList(<<NonString>>)}
OptionsInputs ==
    {JList(s) : s \in SeqsUpTo({RawOption(n) : n \in NextNodeIdsInputs}, MaxOptions)}
TypeInputs == {"select", "multiselect", "checkbox", NonString}
\* <<hint, hint_type, description>>
LegacyInputs ==
    {<<Absent, Absent, Absent>>, <<Null, Null, Null>>,
     <<"h1", "command", "d">>, <<"h1", Absent, Absent>>}
HintsInputs == {JAbsent, JNull, JList(<<RawHint("h2")>>), JList(<<RawHint(NonString)>>)}

RootNodeInputs ==
    {RawNode("n1", t, l[1], l[2], h, o, l[3]) :
        t \in TypeInputs, l \in LegacyInputs, h \in HintsInputs, o \in OptionsInputs}
PlainNode(id) ==
    RawNode(id, "text", Absent, Absent, JAbsent, JList(<<>>), Absent)
BadNode(id) == [PlainNode(id) EXCEPT !.question = Null]
NodesInputs ==
    {JNull, JOther, JDict(<<>>)}
    \cup {JDict([k \in {"n1"} |-> n]) : n \in RootNodeInputs}
    \cup {JDict([k \in {"n1", "n2"} |-> IF k = "n1" THEN n ELSE m]) :
            n \in RootNodeInputs, m \in {PlainNode("n2"), BadNode("n2")}}

\* Every row the trees table can hold for `id`: id, title and root_node_id
\* are non-null strings, description is nullable, nodes is any JSON value.
RowInputs(id) ==
    {RawTree(id, d, r, n) : d \in {"desc", Null}, r \in {"n1", "ghost"}, n \in NodesInputs}

\* The documents the import reads (app/data/trees/*.json). Each has a
\* string title and root_node_id, as the table's NOT NULL columns require.
DocFixture(id) ==
    RawTree(id, "desc", "n1",
            JDict([k \in {"n1"} |->
                RawNode("n1", "select", Absent, Absent, JAbsent,
                        JList(<<RawOption(JList(<<>>))>>), Absent)]))
DocLenient(id) ==
    RawTree(id, "desc", "ghost",
            JDict([k \in {"n1"} |->
                RawNode("n1", "checkbox", "h1", "command", JList(<<RawHint("h2")>>),
                        JList(<<RawOption(JList(<<"n2", "ghost">>))>>), "d")]))
DocNullDescription(id) == [DocFixture(id) EXCEPT !.description = Null]
DocMissingKey(id) == [DocFixture(id) EXCEPT !.nodes = JAbsent]
Docs ==
    {DocFixture("t1"), DocLenient("t1"), DocNullDescription("t1"),
     DocFixture("t2"), DocMissingKey("t2")}

\* ------------------------------------------------------------------- state

Requests == 1..NumRequests

NoResponse == [status |-> 0, detail |-> <<>>, body |-> <<>>]
IdleRequest ==
    [pc |-> "idle", tree_id |-> "", lookup |-> "none", tree_model |-> <<>>,
     tree_schema |-> <<>>, response |-> NoResponse]
NoHealth == [status |-> 0, message |-> <<>>]

Init ==
    /\ store = {}
    /\ imported = [id \in TreeIds |-> <<>>]
    /\ dbUp = TRUE
    /\ req = [r \in Requests |-> IdleRequest]
    /\ session = [r \in Requests |-> "none"]
    /\ health = NoHealth

\* The read path alone, against a table that holds any one row.
InitRead ==
    /\ store \in {{row} : row \in RowInputs("t1")}
    /\ imported = [id \in TreeIds |-> <<>>]
    /\ dbUp = TRUE
    /\ req = [r \in Requests |-> IdleRequest]
    /\ session = [r \in Requests |-> "none"]
    /\ health = NoHealth

\* ----------------------------------------- app/core/database.py: get_db

\* async with AsyncSessionLocal() as session: try: yield session
get_db_enter(r, tree_id) ==
    /\ req[r].pc \in {"idle", "done"}
    /\ session' = [session EXCEPT ![r] = "open"]
    /\ req' = [req EXCEPT ![r] = [IdleRequest EXCEPT !.pc = "handler", !.tree_id = tree_id]]
    /\ UNCHANGED <<store, imported, dbUp, health>>

\* get_db_close without the finally: the session is closed only when the
\* handler returned normally.
get_db_closeOnSuccess(r, state) ==
    IF req[r].response.status = 200 THEN "closed" ELSE state

\* finally: await session.close()  -- runs however the handler ended
get_db_close(r, state) == "closed"

get_db_exit(r) ==
    /\ req[r].pc = "teardown"
    /\ session' = [session EXCEPT ![r] = get_db_close(r, session[r])]
    /\ req' = [req EXCEPT ![r].pc = "done"]
    /\ UNCHANGED <<store, imported, dbUp, health>>

\* ------------------------------------------- app/db/models.py: Tree.to_dict

to_dict(row) ==
    [id |-> row.id, title |-> row.title, description |-> row.description,
     root_node_id |-> row.root_node_id, nodes |-> row.nodes]

\* ------------------------------------------ app/routers/trees.py: get_tree

\* NotFound with a detail that does not name the requested id.
NotFoundNoId(tree_id) ==
    [status |-> 404, detail |-> <<"Tree not found">>, body |-> <<>>]
NotFound(tree_id) ==
    [status |-> 404, detail |-> <<"Tree not found: ", tree_id>>, body |-> <<>>]
ServerError == [status |-> 500, detail |-> <<"Internal Server Error">>, body |-> <<>>]
Ok(tree_schema) == [status |-> 200, detail |-> <<>>, body |-> <<TreeDump(tree_schema)>>]

\* select(TreeModel).where(TreeModel.id == tree_id)
Select(table, tree_id) == {row \in table : row.id = tree_id}

\* get_tree_result that answers not-found when the stored record fails
\* validation.
get_tree_resultInvalidAsNotFound(q, rows) ==
    IF rows = {} \/ Cardinality(rows) > 1
       \/ ~TreeSchemaValid(to_dict(CHOOSE row \in rows : TRUE))
    THEN [q EXCEPT !.pc = "teardown",
                   !.lookup = IF rows = {} THEN "absent" ELSE "found",
                   !.tree_model = IF rows = {} THEN <<>> ELSE <<CHOOSE row \in rows : TRUE>>,
                   !.response = NotFound(q.tree_id)]
    ELSE LET tree_model == CHOOSE row \in rows : TRUE
         IN  [q EXCEPT !.pc = "teardown", !.lookup = "found",
                       !.tree_model = <<tree_model>>,
                       !.tree_schema = <<TreeSchema(to_dict(tree_model))>>,
                       !.response = Ok(TreeSchema(to_dict(tree_model)))]

\* The handler's outcome once the query has returned `rows`.
get_tree_result(q, rows) ==
    IF rows = {}
    THEN [q EXCEPT !.pc = "teardown", !.lookup = "absent",
                   !.response = NotFound(q.tree_id)]
    ELSE IF Cardinality(rows) > 1
    THEN \* scalar_one_or_none raises MultipleResultsFound
         [q EXCEPT !.pc = "teardown", !.lookup = "raised", !.response = ServerError]
    ELSE LET tree_model == CHOOSE row \in rows : TRUE
             tree_dict == to_dict(tree_model)
         IN  IF TreeSchemaValid(tree_dict)
             THEN [q EXCEPT !.pc = "teardown", !.lookup = "found",
                            !.tree_model = <<tree_model>>,
                            !.tree_schema = <<TreeSchema(tree_dict)>>,
                            !.response = Ok(TreeSchema(tree_dict))]
             ELSE \* pydantic ValidationError, unhandled
                  [q EXCEPT !.pc = "teardown", !.lookup = "found",
                            !.tree_model = <<tree_model>>,
                            !.response = ServerError]

get_tree(r) ==
    /\ req[r].pc = "handler"
    /\ req' = [req EXCEPT ![r] =
                 IF dbUp
                 THEN get_tree_result(req[r], Select(store, req[r].tree_id))
                 ELSE \* db.execute raises: the connection fails
                      [req[r] EXCEPT !.pc = "teardown", !.lookup = "raised",
                                     !.response = ServerError]]
    /\ UNCHANGED <<store, imported, dbUp, session, health>>

\* ------------------------------------------------- app/main.py: root

RootMessage == <<"TraceTree", "API", "is", "running">>

\* root declared with db: AsyncSession = Depends(get_db).
rootWithSession ==
    /\ health' = [status |-> 200, message |-> RootMessage]
    /\ session' = [session EXCEPT ![1] = "open"]
    /\ UNCHANGED <<store, imported, dbUp, req>>

root ==
    /\ health' = [status |-> 200, message |-> RootMessage]
    /\ UNCHANGED <<store, imported, dbUp, req, session>>

\* ------------------------- app/db/migrate_json.py: migrate_json_to_db

HasAllKeys(tree_data) ==
    /\ tree_data.id # Absent
    /\ tree_data.title # Absent
    /\ tree_data.description # Absent
    /\ tree_data.root_node_id # Absent
    /\ tree_data.nodes.tag # "absent"

\* existing_tree.title = ...; .description = ...; .root_node_id = ...; .nodes = ...
UpdateRow(existing_tree, tree_data) ==
    [existing_tree EXCEPT !.title = tree_data.title,
                          !.description = tree_data.description,
                          !.root_node_id = tree_data.root_node_id,
                          !.nodes = tree_data.nodes]

\* TreeModel(id=..., title=..., description=..., root_node_id=..., nodes=...)
NewRow(tree_data) ==
    [id |-> tree_data.id, title |-> tree_data.title,
     description |-> tree_data.description,
     root_node_id |-> tree_data.root_node_id, nodes |-> tree_data.nodes]

\* Upsert without the lookup of the existing record.
UpsertAlwaysInsert(table, tree_data) == table \cup {NewRow(tree_data)}

\* One pass of the loop body for a document that has every key, committed.
Upsert(table, tree_data) ==
    LET existing == Select(table, tree_data.id)
    IN  IF existing # {}
        THEN (table \ existing) \cup {UpdateRow(row, tree_data) : row \in existing}
        ELSE table \cup {NewRow(tree_data)}

\* for json_file in json_files: ...; a KeyError on a missing key ends the run
\* with the earlier files committed and this file's changes discarded.
RECURSIVE ImportLoop(_, _)
ImportLoop(st, json_files) ==
    IF json_files = <<>> THEN st
    ELSE LET tree_data == Head(json_files)
         IN  IF ~HasAllKeys(tree_data) THEN st
             ELSE ImportLoop(
                    [table |-> Upsert(st.table, tree_data),
                     last |-> [st.last EXCEPT ![tree_data.id] = <<tree_data>>]],
                    Tail(json_files))

migrate_json_to_db(json_files) ==
    /\ LET end == IF json_files = <<>> \/ ~dbUp
                  THEN [table |-> store, last |-> imported]
                  ELSE ImportLoop([table |-> store, last |-> imported], json_files)
       IN  /\ store' = end.table
           /\ imported' = end.last
    /\ UNCHANGED <<dbUp, req, session, health>>

\* ------------------------------------------- the database server (external)

db_down == dbUp /\ dbUp' = FALSE /\ UNCHANGED <<store, imported, req, session, health>>
db_up == ~dbUp /\ dbUp' = TRUE /\ UNCHANGED <<store, imported, req, session, health>>

\* ---------------------------------------------------------- specifications

Next ==
    \/ \E r \in Requests, tree_id \in RequestIds : get_db_enter(r, tree_id)
    \/ \E r \in Requests : get_tree(r)
    \/ \E r \in Requests : get_db_exit(r)
    \/ root
    \/ \E json_files \in SeqsUpTo(Docs, MaxFiles) : migrate_json_to_db(json_files)
    \/ db_down
    \/ db_up

Spec == Init /\ [][Next]_vars

NextRead ==
    \/ \E tree_id \in RequestIds : get_db_enter(1, tree_id)
    \/ get_tree(1)
    \/ get_db_exit(1)

SpecRead == InitRead /\ [][NextRead]_vars

\* ------------------------------------------------------------------ claims

Answered(r) == req[r].pc \in {"teardown", "done"}
Returned(r) == Answered(r) /\ req[r].response.status = 200
StoredOf(r) == req[r].tree_model[1]
BodyOf(r) == req[r].response.body[1]

\* C1: when get_tree runs with the database reachable and the table holds no
\* row for the requested id, the outcome is the 404 whose detail is
\* "Tree not found: " followed by that id, with no tree and no other error.
C1_AbsentIsNotFound ==
    [][\A r \in Requests :
          (/\ req[r].pc = "handler"
           /\ req'[r].pc = "teardown"
           /\ dbUp
           /\ Select(store, req[r].tree_id) = {})
          => /\ req'[r].response.status = 404
             /\ req'[r].response.detail = <<"Tree not found: ", req[r].tree_id>>
             /\ req'[r].response.body = <<>>
             /\ req'[r].tree_schema = <<>>]_vars

C1_Witness ==
    \E r \in Requests :
        /\ Answered(r)
        /\ req[r].tree_id = UnknownId
        /\ req[r].lookup = "absent"
        /\ req[r].response.status = 404

\* C2 as stated: every tree get_tree returns has a root_node_id that is a
\* key of its own nodes mapping.
C2_RootIsNodeKey ==
    \A r \in Requests :
        Returned(r) => BodyOf(r).root_node_id \in DOMAIN BodyOf(r).nodes.items

\* C2 amended: a returned tree carries the stored root_node_id and the
\* stored node keys, so its root is a key of its nodes exactly when that
\* holds of the stored record.
C2_RootAsStored ==
    \A r \in Requests :
        Returned(r) =>
            /\ BodyOf(r).root_node_id = StoredOf(r).root_node_id
            /\ DOMAIN BodyOf(r).nodes.items = DOMAIN StoredOf(r).nodes.items
            /\ (BodyOf(r).root_node_id \in DOMAIN BodyOf(r).nodes.items
                  <=> StoredOf(r).root_node_id \in DOMAIN StoredOf(r).nodes.items)

C2_Witness ==
    \E r \in Requests :
        /\ Returned(r)
        /\ StoredOf(r).root_node_id \in DOMAIN StoredOf(r).nodes.items
        /\ BodyOf(r).root_node_id \in DOMAIN BodyOf(r).nodes.items

\* An optional scalar is returned as stored; a missing key is returned as null.
SameOptStr(stored, returned) ==
    IF stored = Absent THEN returned = Null ELSE returned = stored
\* An optional list is returned as stored; a missing key is returned as null.
SameOptList(stored, returned) ==
    IF stored.tag \in {"absent", "null"} THEN returned = JNull
    ELSE returned.tag = stored.tag /\ returned.items = stored.items
SameOption(stored, returned) ==
    /\ returned.id = stored.id
    /\ returned.label = stored.label
    /\ SameOptList(stored.next_node_ids, returned.next_node_ids)
SameNode(stored, returned) ==
    /\ returned.id = stored.id
    /\ returned.question = stored.question
    /\ returned.type = stored.type
    /\ SameOptStr(stored.hint, returned.hint)
    /\ SameOptStr(stored.hint_type, returned.hint_type)
    /\ SameOptStr(stored.description, returned.description)
    /\ SameOptList(stored.hints, returned.hints)
    /\ returned.options.tag = "list"
    /\ DOMAIN returned.options.items = DOMAIN stored.options.items
    /\ \A i \in DOMAIN stored.options.items :
           SameOption(stored.options.items[i], returned.options.items[i])
SameTree(stored, returned) ==
    /\ returned.id = stored.id
    /\ returned.title = stored.title
    /\ returned.description = stored.description
    /\ returned.root_node_id = stored.root_node_id
    /\ returned.nodes.tag = "dict"
    /\ DOMAIN returned.nodes.items = DOMAIN stored.nodes.items
    /\ \A k \in DOMAIN stored.nodes.items :
           SameNode(stored.nodes.items[k], returned.nodes.items[k])

\* C3: a stored record that conforms to the schema is answered with 200, and
\* the returned tree has every schema field as stored (a missing optional
\* key comes back as null); hint, hint_type and hints each come back as
\* stored, none derived from another.
C3_ReturnedAsStored ==
    \A r \in Requests :
        /\ (Answered(r) /\ req[r].lookup = "found" /\ TreeSchemaValid(to_dict(StoredOf(r))))
              => req[r].response.status = 200
        /\ Returned(r) => SameTree(StoredOf(r), BodyOf(r))

C3_Witness ==
    \E r \in Requests :
        /\ Returned(r)
        /\ "n1" \in DOMAIN StoredOf(r).nodes.items
        /\ StoredOf(r).nodes.items["n1"].hint = "h1"
        /\ StoredOf(r).nodes.items["n1"].hints.tag = "absent"
        /\ BodyOf(r).nodes.items["n1"].hint = "h1"
        /\ BodyOf(r).nodes.items["n1"].hints = JNull

\* C4: a stored record that fails validation is answered with a 500, not the
\* 404, and no tree; every answer is either a tree that itself passes
\* validation or an error without a tree.
C4_InvalidIsServerFault ==
    \A r \in Requests :
        /\ (Answered(r) /\ req[r].lookup = "found" /\ ~TreeSchemaValid(to_dict(StoredOf(r))))
              => /\ req[r].response.status = 500
                 /\ req[r].response # NotFound(req[r].tree_id)
                 /\ req[r].response.body = <<>>
                 /\ req[r].tree_schema = <<>>
        /\ Answered(r) =>
              \/ /\ req[r].response.status = 200
                 /\ Len(req[r].response.body) = 1
                 /\ TreeSchemaValid(BodyOf(r))
              \/ /\ req[r].response.status \in {404, 500}
                 /\ req[r].response.body = <<>>

C4_Witness ==
    \E r \in Requests :
        /\ Answered(r)
        /\ req[r].lookup = "found"
        /\ StoredOf(r).description = Null
        /\ req[r].response.status = 500

TypeTags == {"select", "multiselect", "text"}

\* C5 as stated: a tree with a node whose type is not select, multiselect or
\* text is never returned.
C5_TypeTagClosed ==
    \A r \in Requests :
        Returned(r) =>
            \A k \in DOMAIN BodyOf(r).nodes.items :
                BodyOf(r).nodes.items[k].type \in TypeTags

\* C6: dumping a validated tree and validating the dump gives the validated
\* tree again.
C6_RoundTrip ==
    \A r \in Requests :
        req[r].tree_schema # <<>> =>
            LET tree == req[r].tree_schema[1]
            IN  /\ TreeSchemaValid(TreeDump(tree))
                /\ TreeSchema(TreeDump(tree)) = tree

C6_Witness ==
    \E r \in Requests :
        /\ req[r].tree_schema # <<>>
        /\ "n1" \in DOMAIN req[r].tree_schema[1].nodes.items
        /\ LET n == req[r].tree_schema[1].nodes.items["n1"]
           IN  /\ n.hint = None
               /\ Len(n.options.items) = 1
               /\ n.options.items[1].next_node_ids = PyList(<<>>)

ServiceName == "TraceTree"

\* C7: the health endpoint answers 200 with the static message that names
\* the service, it can answer in every state (database reachable or not),
\* and answering leaves the store, the sessions and the requests as they were.
C7_HealthStatic ==
    /\ [](/\ health \in {NoHealth, [status |-> 200, message |-> RootMessage]}
          /\ (health # NoHealth => \E i \in DOMAIN health.message : health.message[i] = ServiceName)
          /\ ENABLED (root /\ health'.status = 200))
    /\ [][health' # health => UNCHANGED <<store, imported, dbUp, req, session>>]_vars

C7_Witness ==
    /\ health.status = 200
    /\ ~dbUp
    /\ \A r \in Requests : session[r] = "none"

\* C8: every option of a returned tree has the stored next_node_ids, entry
\* for entry, also the entries that are no key of the tree's nodes.
C8_EdgesAsStored ==
    \A r \in Requests :
        Returned(r) =>
            \A k \in DOMAIN StoredOf(r).nodes.items :
                LET stored == StoredOf(r).nodes.items[k].options.items
                    returned == BodyOf(r).nodes.items[k].options.items
                IN  /\ Len(returned) = Len(stored)
                    /\ \A i \in DOMAIN stored :
                          IF stored[i].next_node_ids.tag = "list"
                          THEN returned[i].next_node_ids = JList(stored[i].next_node_ids.items)
                          ELSE returned[i].next_node_ids = JNull

C8_Witness ==
    \E r \in Requests :
        /\ Returned(r)
        /\ DOMAIN BodyOf(r).nodes.items = {"n1"}
        /\ Len(BodyOf(r).nodes.items["n1"].options.items) = 1
        /\ BodyOf(r).nodes.items["n1"].options.items[1].next_node_ids = JList(<<"n2", "ghost">>)

\* C9: the table holds at most one row per id; a row's title, description,
\* root_node_id and nodes are those of the last document imported with its
\* id; importing that document again leaves the table as it is.
C9_ImportIsUpsert ==
    /\ \A a, b \in store : a.id = b.id => a = b
    /\ \A id \in TreeIds :
          IF imported[id] = <<>>
          THEN Select(store, id) = {}
          ELSE /\ Select(store, id) = {NewRow(imported[id][1])}
               /\ ImportLoop([table |-> store, last |-> imported], <<imported[id][1]>>).table
                    = store

\* A request was answered from the first document of t1, and the table now
\* holds the second: the row was updated in place, beside the row of t2.
C9_Witness ==
    /\ Select(store, "t1") = {NewRow(DocLenient("t1"))}
    /\ Select(store, "t2") = {NewRow(DocFixture("t2"))}
    /\ \E r \in Requests :
          /\ Returned(r)
          /\ StoredOf(r) = NewRow(DocFixture("t1"))

\* C10: a session is open only while its request is being handled, and it
\* is closed once the request is done, whatever the outcome was.
C10_SessionPerRequest ==
    \A r \in Requests :
        /\ req[r].pc = "idle" => session[r] = "none"
        /\ req[r].pc \in {"handler", "teardown"} => session[r] = "open"
        /\ req[r].pc = "done" => session[r] = "closed"

C10_Witness ==
    \E r \in Requests :
        /\ req[r].pc = "done"
        /\ req[r].lookup = "found"
        /\ req[r].response.status = 500
        /\ session[r] = "closed"

====
